---- MODULE Spec2Model ----
(***************************************************************************)
(* SKU barcode label generator: src/app.py (Streamlit label builder with   *)
(* an on-disk barcode image cache) and src/generate_barcode.py (console    *)
(* label builder that renders into a temporary folder).                    *)
(*                                                                         *)
(* A string is a sequence of one-character strings.                        *)
(***************************************************************************)
EXTENDS Integers, Sequences, FiniteSets, TLC

\* ------------------------------------------------------------------
\* Bounds
\* ------------------------------------------------------------------
MaxSkuLen == 6
MaxNameLen == 3
MaxRequests == 3

\* ------------------------------------------------------------------
\* Characters and strings
\* ------------------------------------------------------------------
Whitespace == {" "}

SkuAlphabet == {"9", ".", " "}

NameAlphabet == {"/", "\\", "n", "A"}

HexDigits == <<"0", "1", "2", "3", "4", "5", "6", "7", "8", "9", "a", "b", "c", "d", "e", "f">>

CharList == <<"9", ".", " ", "/", "\\", "n", "A", "a", "B", "Z", "1">>

StringsOver(alphabet, n) == UNION {[1..k -> alphabet] : k \in 0..n}

SkuStrings == StringsOver(SkuAlphabet, MaxSkuLen)

NameStrings == StringsOver(NameAlphabet, MaxNameLen)

NoValue == <<"<none>">>

\* ------------------------------------------------------------------
\* Python str primitives, as the library computes them
\* ------------------------------------------------------------------
RECURSIVE LStrip(_)
LStrip(s) == IF s # <<>> /\ Head(s) \in Whitespace THEN LStrip(Tail(s)) ELSE s

RECURSIVE RStrip(_)
RStrip(s) ==
    IF s # <<>> /\ s[Len(s)] \in Whitespace THEN RStrip(SubSeq(s, 1, Len(s) - 1)) ELSE s

Strip(s) == RStrip(LStrip(s))

StartsWith(s, prefix) ==
    Len(s) >= Len(prefix) /\ SubSeq(s, 1, Len(prefix)) = prefix

RECURSIVE Replace(_, _, _)
Replace(s, old, new) ==
    IF Len(s) < Len(old) THEN s
    ELSE IF SubSeq(s, 1, Len(old)) = old
         THEN new \o Replace(SubSeq(s, Len(old) + 1, Len(s)), old, new)
         ELSE <<Head(s)>> \o Replace(Tail(s), old, new)

Lower(s) == [i \in 1..Len(s) |-> IF s[i] = "A" THEN "a" ELSE IF s[i] = "B" THEN "b" ELSE IF s[i] = "Z" THEN "z" ELSE s[i]]

Contains(s, c) == \E i \in 1..Len(s) : s[i] = c

\* ------------------------------------------------------------------
\* hashlib.sha1(...).hexdigest()[:10]: ten hexadecimal digits.  SHA-1 is
\* represented by a digest that is collision-free on the bounded strings
\* (the position of the string in a base-12 enumeration, written in hex).
\* ------------------------------------------------------------------
HashLen == 10

CharCode(c) == CHOOSE i \in 1..Len(CharList) : CharList[i] = c

RECURSIVE StrIndex(_)
StrIndex(s) == IF s = <<>> THEN 0 ELSE CharCode(Head(s)) + (Len(CharList) + 1) * StrIndex(Tail(s))

RECURSIVE HexOf(_, _)
HexOf(n, width) ==
    IF width = 0 THEN <<>> ELSE HexOf(n \div 16, width - 1) \o <<HexDigits[(n % 16) + 1]>>

Sha1Hex(s) == HexOf(StrIndex(s), HashLen)

\* ------------------------------------------------------------------
\* app.py utilities
\* ------------------------------------------------------------------
safe_filename(s) ==
    <<"s", "k", "u", "_">> \o Sha1Hex(s) \o <<"_">>
        \o Replace(Replace(s, <<"/">>, <<"_">>), <<"\\", "n">>, <<>>)

transform_one_nine(sku) ==
    LET t == Strip(sku) IN IF StartsWith(t, <<"9", "9", "9", ".">>) THEN <<"9">> \o t ELSE t

transform_no_strip(sku) ==
    IF StartsWith(Strip(sku), <<"9", "9", "9", ".">>) THEN <<"9", "9">> \o Strip(sku) ELSE sku

transform_sku_for_barcode(sku) ==
    LET t == Strip(sku) IN IF StartsWith(t, <<"9", "9", "9", ".">>) THEN <<"9", "9">> \o t ELSE t

\* ------------------------------------------------------------------
\* State
\* ------------------------------------------------------------------
VARIABLES
    sku,            \* argument handed to the utilities (function-level runs)
    encoded,        \* value returned by transform_sku_for_barcode(sku)
    filename,       \* value returned by safe_filename(sku)
    barcodes,       \* app.py barcode_folder: png path -> file content
    pdfs,           \* app.py downloads_folder: sku -> description drawn on the PDF
    log,            \* app.py: one record per Generate Label click
    cli_pc,         \* generate_barcode.py: "running", "exited" or "crashed"
    cli_barcodes,   \* generate_barcode.py temporary barcode folder
    cli_docs,       \* generate_barcode.py: sku of every .docx saved
    cli_log,        \* generate_barcode.py: one record per SKU entered
    pc,             \* concurrent generate_barcode calls: position of each call
    arg,            \* concurrent generate_barcode calls: sku of each call
    ret,            \* concurrent generate_barcode calls: returned image path
    calls           \* concurrent generate_barcode calls: renderer invocations

fnVars == <<sku, encoded, filename>>

appVars == <<barcodes, pdfs, log>>

cliVars == <<cli_pc, cli_barcodes, cli_docs, cli_log>>

raceVars == <<pc, arg, ret, calls>>

vars == <<sku, encoded, filename, barcodes, pdfs, log, cli_pc, cli_barcodes, cli_docs,
          cli_log, pc, arg, ret, calls>>

\* ------------------------------------------------------------------
\* Reference table (sku_list.xlsx) and the texts an operator can type
\* ------------------------------------------------------------------
SkuA == <<"A">>

Sku999 == <<"9", "9", "9", ".", "1">>

df == << [SKU |-> SkuA, Description |-> "Widget A"],
         [SKU |-> Sku999 \o <<" ">>, Description |-> "Widget 999"] >>

UiInputs == { <<>>, SkuA, <<"a">>, Sku999, <<" ", "Z", " ">> }

None == <<"<None>">>

NoFile == [data |-> None, text |-> None, stamp |-> 0, complete |-> FALSE]

PngPath(filename_base) == filename_base \o <<".png">>

AppPaths == {PngPath(safe_filename(Strip(s))) : s \in UiInputs}

CliInputs == { SkuA, <<" ", "Z", " ">> }

CliPaths == {PngPath(Strip(s)) : s \in CliInputs}

RenderOutcomes == {"ok", "raise", "raise_partial", "nofile"}

\* ------------------------------------------------------------------
\* app.py: generate_barcode
\* ------------------------------------------------------------------
Exists(files, path) == files[path] # NoFile

CacheHitNever(files, png_path) == FALSE

CacheHit(files, png_path) == Exists(files, png_path)

RenderTextEncoded(original_sku, encoded_sku) == encoded_sku

RenderText(original_sku, encoded_sku) == original_sku

RaisesNever(out) == FALSE

Raises(out) == out \in {"raise", "raise_partial"}

RenderCall(original_sku, encoded_sku, filename_base) ==
    [data |-> encoded_sku, text |-> RenderText(original_sku, encoded_sku),
     target |-> filename_base]

SaveWipe(files, call, out, stamp) ==
    [p \in DOMAIN files |->
        IF p = PngPath(call.target) /\ out \in {"ok", "raise_partial"}
        THEN [data |-> call.data, text |-> call.text, stamp |-> stamp, complete |-> out = "ok"]
        ELSE NoFile]

Save(files, call, out, stamp) ==
    IF out \in {"ok", "raise_partial"}
    THEN [files EXCEPT ![PngPath(call.target)] =
            [data |-> call.data, text |-> call.text, stamp |-> stamp, complete |-> out = "ok"]]
    ELSE files

VerifyWrongPath(files, png_path) == None

VerifyResult(files, png_path) == IF Exists(files, png_path) THEN png_path ELSE None

generate_barcode(files, s, out, stamp) ==
    LET original_sku == Strip(s)
        encoded_sku == transform_sku_for_barcode(original_sku)
        filename_base == safe_filename(original_sku)
        png_path == PngPath(filename_base)
        call == RenderCall(original_sku, encoded_sku, filename_base)
        written == Save(files, call, out, stamp)
        result == VerifyResult(written, png_path)
        made == <<[proc |-> 0, call |-> call, out |-> out]>>
    IN  IF CacheHit(files, png_path)
        THEN [files |-> files, path |-> png_path, encoded |-> encoded_sku, calls |-> <<>>]
        ELSE IF Raises(out)
        THEN [files |-> written, path |-> None, encoded |-> None, calls |-> made]
        ELSE [files |-> written, path |-> result,
              encoded |-> IF result = None THEN None ELSE encoded_sku, calls |-> made]

\* ------------------------------------------------------------------
\* app.py: create_label_pdf and the Generate Label handler
\* ------------------------------------------------------------------
ImageOutcomes == {"ok", "image_error"}

NoPdf == "<no pdf>"

\* Image.open / drawImage succeed only on a completely written image
ImageLoads(files, path, imgout) == files[path].complete /\ imgout = "ok"

create_label_pdf(files, docs, s, description, out, imgout, stamp) ==
    LET gb == generate_barcode(files, s, out, stamp)
    IN  IF gb.path = None
        THEN [gb |-> gb, pdfs |-> docs, pdf_path |-> None]
        ELSE IF ~ImageLoads(gb.files, gb.path, imgout)
        THEN [gb |-> gb, pdfs |-> docs, pdf_path |-> None]
        ELSE [gb |-> gb, pdfs |-> [docs EXCEPT ![s] = description], pdf_path |-> s \o <<".pdf">>]

SKU_normalized(row) == Strip(row.SKU)

MatchFirstRow(sku_input) == df

Match(sku_input) ==
    LET exact(row) == SKU_normalized(row) = sku_input
        nocase(row) == Lower(SKU_normalized(row)) = Lower(sku_input)
    IN  IF SelectSeq(df, exact) # <<>> THEN SelectSeq(df, exact) ELSE SelectSeq(df, nocase)

NoRequest == [files |-> <<>>, path |-> None, encoded |-> None, calls |-> <<>>]

LogEntry(raw, outcome, gb, pdf_path, before, after) ==
    [input |-> raw, outcome |-> outcome, image |-> gb.path, encoded |-> gb.encoded,
     calls |-> gb.calls, pdf |-> pdf_path,
     created |-> {p \in DOMAIN before : before[p] = NoFile /\ after[p] # NoFile}]

GenerateLabel(raw, out, imgout) ==
    LET sku_input == Strip(raw)
        match == Match(sku_input)
        description == match[1].Description
        made == create_label_pdf(barcodes, pdfs, sku_input, description, out, imgout,
                                 Len(log) + 1)
    IN  /\ Len(log) + Len(cli_log) < MaxRequests
        /\ IF sku_input = <<>>
           THEN /\ log' = Append(log, LogEntry(raw, "invalid", NoRequest, None, barcodes, barcodes))
                /\ UNCHANGED <<barcodes, pdfs>>
           ELSE IF match = <<>>
           THEN /\ log' = Append(log, LogEntry(raw, "not_found", NoRequest, None, barcodes, barcodes))
                /\ UNCHANGED <<barcodes, pdfs>>
           ELSE /\ barcodes' = made.gb.files
                /\ pdfs' = made.pdfs
                /\ log' = Append(log, LogEntry(raw,
                              IF made.pdf_path = None \/ made.pdfs[sku_input] = NoPdf
                              THEN "error" ELSE "ready",
                              made.gb, made.pdf_path, barcodes, made.gb.files))
        /\ UNCHANGED <<fnVars, cliVars, raceVars>>

\* ------------------------------------------------------------------
\* generate_barcode.py: the console loop
\* ------------------------------------------------------------------
CliOutcomes == {"ok", "oserror", "raise"}

cli_generate_barcode(files, data, img_filename, out, stamp) ==
    IF out = "ok"
    THEN [files EXCEPT ![img_filename] =
            [data |-> data, text |-> data, stamp |-> stamp, complete |-> TRUE]]
    ELSE files

CliMatch(sku_input) == LET exact(row) == row.SKU = sku_input IN SelectSeq(df, exact)

CliEnterSku(raw, out) ==
    LET sku_input == Strip(raw)
        match == CliMatch(sku_input)
        img_filename == PngPath(sku_input)
        entry(outcome, n) == [input |-> raw, outcome |-> outcome, renders |-> n]
    IN  /\ cli_pc = "running"
        /\ Len(log) + Len(cli_log) < MaxRequests
        /\ IF match = <<>>
           THEN /\ cli_log' = Append(cli_log, entry("not_found", 0))
                /\ UNCHANGED <<cli_pc, cli_barcodes, cli_docs>>
           ELSE /\ cli_barcodes' = cli_generate_barcode(cli_barcodes, sku_input, img_filename,
                                                        out, Len(cli_log) + 1)
                /\ cli_pc' = IF out = "ok" THEN "running"
                             ELSE IF out = "oserror" THEN "exited" ELSE "crashed"
                /\ cli_docs' = IF out = "ok" THEN cli_docs \cup {sku_input} ELSE cli_docs
                /\ cli_log' = Append(cli_log, entry(IF out = "ok" THEN "ready" ELSE "error",
                                                    IF out = "oserror" THEN 0 ELSE 1))
        /\ UNCHANGED <<fnVars, appVars, raceVars>>

CliExit ==
    /\ cli_pc = "running"
    /\ cli_pc' = "exited"
    /\ cli_barcodes' = [p \in DOMAIN cli_barcodes |-> NoFile]
    /\ UNCHANGED <<cli_docs, cli_log, fnVars, appVars, raceVars>>

\* ------------------------------------------------------------------
\* Sequential operation: one operator, one request at a time
\* ------------------------------------------------------------------
Procs == {1, 2}

IdleRace ==
    /\ pc = [p \in Procs |-> "idle"]
    /\ arg = [p \in Procs |-> <<>>]
    /\ ret = [p \in Procs |-> None]
    /\ calls = <<>>

IdleFn == sku = <<>> /\ encoded = NoValue /\ filename = NoValue

IdleApp ==
    /\ barcodes = [p \in AppPaths |-> NoFile]
    /\ pdfs = [s \in {Strip(r) : r \in UiInputs} |-> NoPdf]
    /\ log = <<>>

IdleCli ==
    /\ cli_pc = "running"
    /\ cli_barcodes = [p \in CliPaths |-> NoFile]
    /\ cli_docs = {}
    /\ cli_log = <<>>

Init == IdleFn /\ IdleApp /\ IdleCli /\ IdleRace

Next ==
    \/ \E raw \in UiInputs, out \in RenderOutcomes, imgout \in ImageOutcomes :
            GenerateLabel(raw, out, imgout)
    \/ \E raw \in CliInputs, out \in CliOutcomes : CliEnterSku(raw, out)
    \/ CliExit

Spec == Init /\ [][Next]_vars

\* ------------------------------------------------------------------
\* Function-level runs of the two utilities
\* ------------------------------------------------------------------
InitFn ==
    /\ sku \in SkuStrings \cup NameStrings
    /\ encoded = NoValue
    /\ filename = NoValue
    /\ barcodes = [p \in {PngPath(safe_filename(Strip(sku)))} |-> NoFile]
    /\ pdfs = [s \in {Strip(sku)} |-> NoPdf]
    /\ log = <<>>
    /\ IdleCli /\ IdleRace

CallTransform ==
    /\ encoded = NoValue
    /\ encoded' = transform_sku_for_barcode(sku)
    /\ UNCHANGED <<sku, filename, appVars, cliVars, raceVars>>

CallSafeFilename ==
    /\ filename = NoValue
    /\ filename' = safe_filename(sku)
    /\ UNCHANGED <<sku, encoded, appVars, cliVars, raceVars>>

CallGenerateBarcode(out) ==
    LET gb == generate_barcode(barcodes, sku, out, 1)
    IN  /\ pc[1] \in {"idle", "called"}
        /\ pc' = [pc EXCEPT ![1] = IF pc[1] = "idle" THEN "called" ELSE "done"]
        /\ barcodes' = gb.files
        /\ ret' = [ret EXCEPT ![1] = gb.path]
        /\ calls' = calls \o gb.calls
        /\ UNCHANGED <<arg, pdfs, log, fnVars, cliVars>>

NextFn == CallTransform \/ CallSafeFilename

NextGen ==
    \/ CallTransform
    \/ \E out \in RenderOutcomes : CallGenerateBarcode(out)

SpecFn == InitFn /\ [][NextFn]_vars

SpecGen == InitFn /\ [][NextGen]_vars

\* ------------------------------------------------------------------
\* Two Streamlit sessions inside generate_barcode at the same time
\* (app.py lines 68-97, no lock around the check, the write and the re-check)
\* ------------------------------------------------------------------
RaceSkus == {SkuA, Sku999}

RacePath(p) == PngPath(safe_filename(Strip(arg[p])))

Call(p, s) ==
    /\ pc[p] = "idle"
    /\ arg' = [arg EXCEPT ![p] = s]
    /\ pc' = [pc EXCEPT ![p] = "check"]
    /\ UNCHANGED <<ret, calls, fnVars, appVars, cliVars>>

Check(p) ==
    /\ pc[p] = "check"
    /\ IF CacheHit(barcodes, RacePath(p))
       THEN /\ ret' = [ret EXCEPT ![p] = RacePath(p)]
            /\ pc' = [pc EXCEPT ![p] = "done"]
       ELSE /\ pc' = [pc EXCEPT ![p] = "render"]
            /\ UNCHANGED ret
    /\ UNCHANGED <<arg, calls, fnVars, appVars, cliVars>>

\* code128(...) and the start of b_obj.save: the file is created, not yet written out
Render(p, out) ==
    LET original_sku == Strip(arg[p])
        call == RenderCall(original_sku, transform_sku_for_barcode(original_sku),
                           safe_filename(original_sku))
    IN  /\ pc[p] = "render"
        /\ calls' = Append(calls, [proc |-> p, call |-> call, out |-> out])
        /\ barcodes' = IF out \in {"ok", "raise_partial"}
                       THEN Save(barcodes, call, "raise_partial", p)
                       ELSE barcodes
        /\ pc' = [pc EXCEPT ![p] = CASE out = "ok" -> "writing"
                                     [] out = "raise_partial" -> "failing"
                                     [] out = "raise" -> "done"
                                     [] out = "nofile" -> "verify"]
        /\ UNCHANGED <<arg, ret, pdfs, log, fnVars, cliVars>>

\* the end of b_obj.save: the image is written out, or the writer raises midway
FinishSave(p) ==
    LET original_sku == Strip(arg[p])
        call == RenderCall(original_sku, transform_sku_for_barcode(original_sku),
                           safe_filename(original_sku))
    IN  /\ pc[p] \in {"writing", "failing"}
        /\ barcodes' = IF pc[p] = "writing" THEN Save(barcodes, call, "ok", p) ELSE barcodes
        /\ pc' = [pc EXCEPT ![p] = IF pc[p] = "writing" THEN "verify" ELSE "done"]
        /\ UNCHANGED <<arg, ret, calls, pdfs, log, fnVars, cliVars>>

Verify(p) ==
    /\ pc[p] = "verify"
    /\ ret' = [ret EXCEPT ![p] = VerifyResult(barcodes, RacePath(p))]
    /\ pc' = [pc EXCEPT ![p] = "done"]
    /\ UNCHANGED <<arg, calls, fnVars, appVars, cliVars>>

NextRace ==
    \/ \E p \in Procs, s \in RaceSkus : Call(p, s)
    \/ \E p \in Procs : Check(p)
    \/ \E p \in Procs, out \in RenderOutcomes : Render(p, out)
    \/ \E p \in Procs : FinishSave(p)
    \/ \E p \in Procs : Verify(p)

SpecRace == Init /\ [][NextRace]_vars

\* ==================================================================
\* Properties
\* ==================================================================
Prefix999 == <<"9", "9", "9", ".">>

Reached(e) == e.outcome \in {"error", "ready"}

SameSku(e, f) == Strip(e.input) = Strip(f.input)

Pairs == {i \in 1..Len(log) : i < Len(log) /\ Reached(log[i]) /\ Reached(log[i + 1])
                                /\ SameSku(log[i], log[i + 1])}

KeptIn(before, after) == \A p \in DOMAIN before : before[p] # NoFile => after[p] = before[p]

NewIn(before, after) == {p \in DOMAIN before : before[p] = NoFile /\ after[p] # NoFile}

AppRequestStep == Len(log') = Len(log) + 1

CliRequestStep == Len(cli_log') = Len(cli_log) + 1

AppOwnPath == PngPath(safe_filename(Strip(log'[Len(log')].input)))

CliOwnPath == PngPath(Strip(cli_log'[Len(cli_log')].input))

C3_NoPathSeparator ==
    filename # NoValue => ~Contains(filename, "/") /\ ~Contains(filename, "\\")

\* C4 as stated: for every SKU that does not itself start with "999.",
\* leading whitespace included, transform_sku_for_barcode returns the trimmed SKU.
C4_RawNot999IsTrimmed ==
    (encoded # NoValue /\ ~StartsWith(sku, Prefix999)) => encoded = Strip(sku)

\* C4 amended: for every SKU whose trimmed value does not start with "999.",
\* transform_sku_for_barcode returns the trimmed SKU.
C4_TrimmedNot999IsTrimmed ==
    (encoded # NoValue /\ ~StartsWith(Strip(sku), Prefix999)) => encoded = Strip(sku)

C4_Witness ==
    /\ encoded # NoValue
    /\ ~StartsWith(Strip(sku), Prefix999)
    /\ sku # <<>> /\ Head(sku) \in Whitespace
    /\ Strip(sku) # <<>>

\* C5: for every SKU whose trimmed value starts with "999.",
\* transform_sku_for_barcode returns "99" followed by the whole trimmed SKU,
\* and that is the data of every renderer invocation generate_barcode makes.
C5_Prefix999GetsTwoNines ==
    StartsWith(Strip(sku), Prefix999) =>
        /\ encoded # NoValue => encoded = <<"9", "9">> \o Strip(sku)
        /\ \A k \in 1..Len(calls) : calls[k].call.data = <<"9", "9">> \o Strip(sku)

C5_Witness ==
    /\ StartsWith(Strip(sku), Prefix999)
    /\ Len(Strip(sku)) > Len(Prefix999)
    /\ encoded # NoValue
    /\ calls # <<>>

\* C6: on every renderer invocation of generate_barcode the human-readable
\* text is the trimmed SKU; for a SKU starting with "999." the data is "99"
\* followed by the SKU and so differs from the text.
C6_TextIsOriginalSku ==
    \A k \in 1..Len(calls) :
        /\ calls[k].call.text = Strip(sku)
        /\ StartsWith(Strip(sku), Prefix999) =>
              /\ calls[k].call.data = <<"9", "9">> \o calls[k].call.text
              /\ calls[k].call.data # calls[k].call.text

C6_Witness ==
    /\ calls # <<>>
    /\ StartsWith(Strip(sku), Prefix999)
    /\ barcodes[PngPath(safe_filename(Strip(sku)))].complete

\* C7: a request whose renderer invocation raises, or leaves no image at the
\* expected path, ends with no image path from generate_barcode, no PDF path
\* from create_label_pdf and the error outcome in the UI, and it invokes the
\* renderer once only.
RenderFailed(e) ==
    /\ e.calls # <<>>
    /\ e.calls[1].out \in {"raise", "raise_partial", "nofile"}

C7_RenderFailureAborts ==
    \A i \in 1..Len(log) :
        RenderFailed(log[i]) =>
            /\ log[i].image = None
            /\ log[i].pdf = None
            /\ log[i].outcome = "error"
            /\ Len(log[i].calls) = 1

C7_Witness ==
    \E i \in 1..Len(log) : \E j \in 1..Len(log) :
        /\ log[i].calls # <<>> /\ log[i].calls[1].out = "raise_partial"
        /\ log[j].calls # <<>> /\ log[j].calls[1].out = "nofile"
        /\ log[i].outcome = "error" /\ log[j].outcome = "error"

\* C8: a request whose entered (non-blank) SKU equals no normalized table SKU,
\* neither exactly nor ignoring case, ends as 'not found', invokes no renderer
\* and leaves the barcode folder and the PDF folder unchanged.
NoRowFor(sku_input) ==
    \A r \in 1..Len(df) :
        /\ Strip(df[r].SKU) # sku_input
        /\ Lower(Strip(df[r].SKU)) # Lower(sku_input)

LookupMissStep ==
    /\ AppRequestStep
    /\ Strip(log'[Len(log')].input) # <<>>
    /\ NoRowFor(Strip(log'[Len(log')].input))

C8_LookupMissChangesNothing ==
    [][ LookupMissStep => /\ log'[Len(log')].outcome = "not_found"
                          /\ log'[Len(log')].calls = <<>>
                          /\ log'[Len(log')].image = None
                          /\ log'[Len(log')].pdf = None
                          /\ barcodes' = barcodes
                          /\ pdfs' = pdfs ]_vars

C8_Witness ==
    \E i \in 1..Len(log) :
        /\ i > 1
        /\ log[i].outcome = "not_found"
        /\ NoRowFor(Strip(log[i].input))
        /\ log[i - 1].outcome = "ready"
        /\ \E p \in DOMAIN barcodes : barcodes[p] # NoFile

\* C9: when two concurrent generate_barcode calls for the same SKU both miss
\* the cache, both invoke the renderer and both write the image, both return
\* the same image path and the image exists, written by one of them.
CallsOf(p) == SelectSeq(calls, LAMBDA c : c.proc = p)

BothRendered ==
    /\ \A p \in Procs : pc[p] = "done"
    /\ Strip(arg[1]) = Strip(arg[2])
    /\ \A p \in Procs : CallsOf(p) # <<>> /\ CallsOf(p)[1].out = "ok"

C9_RaceSamePathPresent ==
    BothRendered =>
        /\ ret[1] = RacePath(1)
        /\ ret[2] = ret[1]
        /\ barcodes[RacePath(1)].complete
        /\ barcodes[RacePath(1)].stamp \in Procs

C9_Witness ==
    /\ BothRendered
    /\ Len(calls) = 2
    /\ ret[1] = ret[2]
    /\ ret[1] # None
    /\ barcodes[ret[1]].stamp = calls[1].proc

\* C10 as stated: two SKUs with different trimmed texts never get the same payload.
TrimmedSkus == {Strip(s) : s \in SkuStrings}

PayloadOf == [t \in TrimmedSkus |-> transform_sku_for_barcode(t)]

Transformed == encoded # NoValue

C10_Injective ==
    Transformed => \A t \in TrimmedSkus : t # Strip(sku) => PayloadOf[t] # encoded

\* C10 amended: two SKUs with different trimmed texts get the same payload only
\* when one trimmed text starts with "999." and the other is "99" followed by it.
Shadows(long, short) == StartsWith(short, Prefix999) /\ long = <<"9", "9">> \o short

C10_InjectiveUpToShadow ==
    Transformed =>
        \A t \in TrimmedSkus :
            (t # Strip(sku) /\ PayloadOf[t] = encoded) =>
                Shadows(t, Strip(sku)) \/ Shadows(Strip(sku), t)

C10_Witness ==
    /\ Transformed
    /\ StartsWith(Strip(sku), Prefix999)
    /\ \E t \in TrimmedSkus : t # Strip(sku) /\ PayloadOf[t] = encoded

====
